---- MODULE Spec2Model ----
(***************************************************************************)
(* Verification model of go-ipfs-cmds: the executor (executor.go), the     *)
(* HTTP bridge (http/handler.go) and the channel response pair as it is    *)
(* exercised by TestPostRun and TestCancel (command_test.go).              *)
(***************************************************************************)
EXTENDS Integers, Sequences, FiniteSets, TLC

(***************************************************************************)
(* Bounds                                                                  *)
(***************************************************************************)
\* largest number of values Run emits in one call of Execute
MaxRunEmits == 2

\* goroutines calling accessors of one ServerConfig, and calls each one makes
NumGoroutines == 2
MaxCalls == 2

\* longest list of allowed origins AppendAllowedOrigins builds
MaxOrigins == 2

\* most calls of Next the consumer of a cancelled pair makes
MaxNexts == 2

(***************************************************************************)
(* State of one call of executor.Execute                                   *)
(***************************************************************************)
VARIABLES
    xin,        \* the inputs of the call: the command, the request, the kind of re
    xpc,        \* position inside Execute
    re,         \* the emitter the local variable re refers to: "orig" or "up"
    em,         \* per emitter: its state and the calls it has received
    ret,        \* the value of the named result err once Execute has returned
    panicv,     \* the panic in flight: "none", "err" (an error value), "other"
    xcnt,       \* what Execute has done so far (calls of hooks, context swap)
    xctx        \* req.Context ("prev": as passed in, "child": derived with the
                \* timeout), and what has happened to the contexts

xvars == <<xin, xpc, re, em, ret, panicv, xcnt, xctx>>

(***************************************************************************)
(* State of one call of internalHandler.ServeHTTP                          *)
(***************************************************************************)
VARIABLES
    hin,        \* the inputs: capabilities of env and w, headers, outcomes of parse and Call
    hpc,        \* position inside ServeHTTP
    wpc,        \* the watcher goroutine: "none", "waiting", "done"
    hctx,       \* the contexts: the env's parent, the derived one, the handler's variable ctx
    reqCtx,     \* req.Context: "unset" (no request yet), "nil", "derived"
    status,     \* the HTTP status written, 0 while none is
    hcnt        \* what the handler has done so far

hvars == <<hin, hpc, wpc, hctx, reqCtx, status, hcnt>>

(***************************************************************************)
(* State of a ServerConfig used by several goroutines                      *)
(***************************************************************************)
VARIABLES
    mu,         \* cfg.corsOptsRWMutex: the goroutine holding it for writing (0: none), the readers
    opts,       \* *cfg.corsOpts
    gs          \* per goroutine: the accessor it is in, its position, its copy of the mutex

cvars == <<mu, opts, gs>>

(***************************************************************************)
(* State of the channel response pairs and of the goroutines using them    *)
(***************************************************************************)
VARIABLES
    pairs,      \* per channel response pair: closed, streaming started, length
    ctxDone,    \* the request context is cancelled
    prod,       \* the producer: Run of TestPostRun, the goroutine of TestCancel
    stage,      \* the goroutine started by the PostRun of TestPostRun
    cons        \* the final consumer: the test's own goroutine

chvars == <<pairs, ctxDone, prod, stage, cons>>

vars == <<xin, xpc, re, em, ret, panicv, xcnt, xctx,
          hin, hpc, wpc, hctx, reqCtx, status, hcnt,
          mu, opts, gs,
          pairs, ctxDone, prod, stage, cons>>

Emitters == {"orig", "up"}

\* ---------------------------------------------------------------------
\* ResponseEmitter, as far as the executor uses it: Emit and Close.
\* An emitter is open or closed; Emit on a closed emitter is an error.
\* Every call is recorded together with its caller ("exec" or "run").
\* ---------------------------------------------------------------------
NewEmitter ==
    [closed |-> FALSE, closeCalls |-> 0, execCloses |-> 0,
     emits |-> 0, execEmits |-> 0, execCalls |-> 0, encoders |-> 0,
     encoder |-> <<>>]

EmitOK(e) == ~e.closed

EmitterEmit(e, who) ==
    [e EXCEPT !.emits = IF e.closed THEN @ ELSE @ + 1,
              !.execEmits = IF who = "exec" /\ ~e.closed THEN @ + 1 ELSE @,
              !.execCalls = IF who = "exec" THEN @ + 1 ELSE @]

EmitterClose(e, who) ==
    [e EXCEPT !.closed = TRUE,
              !.closeCalls = @ + 1,
              !.execCloses = IF who = "exec" THEN @ + 1 ELSE @,
              !.execCalls = IF who = "exec" THEN @ + 1 ELSE @]

\* SetEncoder(enc): enc is <<table, tag>>, the table being the command's
\* ("cmd") or the package's ("global")
EmitterSetEncoder(e, enc) ==
    [e EXCEPT !.encoders = @ + 1, !.execCalls = @ + 1, !.encoder = enc]

RECURSIVE EmitN(_, _, _)
EmitN(e, n, who) == IF n = 0 THEN e ELSE EmitN(EmitterEmit(e, who), n - 1, who)

\* ---------------------------------------------------------------------
\* Encoding tags.  The package's table Encoders has an encoder for Text
\* (part_000:23), for JSON (executor.go:55) and for XML; none for Protobuf.
\* ---------------------------------------------------------------------
Text == "text"

JSON == "json"

XML == "xml"

Protobuf == "protobuf"

EncodingTypes == {Text, JSON, XML, Protobuf}

Encoders == {Text, JSON, XML}

\* the tables a command may carry in cmd.Encoders
CommandEncoders == SUBSET {Text, JSON, Protobuf}

\* ---------------------------------------------------------------------
\* The inputs of a call of Execute
\* ---------------------------------------------------------------------
ExecInputs ==
    [hasRun     : BOOLEAN,                      \* cmd.Run != nil
     argsOK     : BOOLEAN,                      \* cmd.CheckArguments(req) == nil
     isEE       : BOOLEAN,                      \* re implements EncodingEmitter
     encType    : EncodingTypes,                \* GetEncoding(req), Text by default
     cmdEncs    : CommandEncoders,              \* the keys of cmd.Encoders
     timeoutOpt : {"none", "bad", "good"},      \* req.Options[TimeoutOpt]
     preRun     : {"nil", "ok", "err"},         \* cmd.PreRun and what it returns
     hasPostRun : BOOLEAN,                      \* cmd.PostRun[emitterType] != nil
     runEmits   : 0..MaxRunEmits,               \* values Run emits
     runCloses  : BOOLEAN,                      \* Run closes its emitter itself
     runOutcome : {"return", "panicErr", "panicOther"}]

NoCounts ==
    [argsChecked |-> FALSE, ctxReplaced |-> FALSE,
     preRunCalls |-> 0, postRunCalls |-> 0, runCalls |-> 0, closedAtRun |-> FALSE,
     preRunCtx |-> "none", runCtx |-> "none"]

NoTimeout == [cur |-> "prev", prevCancelled |-> FALSE, elapsed |-> FALSE]

\* context.WithTimeout: the child is done once its deadline has passed or its
\* parent is done
CtxDone(c) ==
    IF c = "child" THEN xctx.elapsed \/ xctx.prevCancelled ELSE xctx.prevCancelled

InitExec ==
    /\ xin \in ExecInputs
    /\ xpc = "start"
    /\ re = "orig"
    /\ em = [e \in Emitters |-> NewEmitter]
    /\ ret = "none"
    /\ panicv = "none"
    /\ xcnt = NoCounts
    /\ xctx = NoTimeout

\* the callable check made after the argument check
CallableCheck_AfterArgs ==
    /\ xpc = "start"
    /\ IF ~xin.hasRun
         THEN /\ ret' = "ErrNotCallable"
              /\ xcnt' = [xcnt EXCEPT !.argsChecked = TRUE]
              /\ xpc' = "done"
         ELSE /\ ret' = ret
              /\ xcnt' = xcnt
              /\ xpc' = "args"
    /\ UNCHANGED <<xctx, xin, re, em, panicv>>

\* executor.go:30-32
CallableCheck ==
    /\ xpc = "start"
    /\ IF ~xin.hasRun
         THEN /\ ret' = "ErrNotCallable"
              /\ xpc' = "done"
         ELSE /\ ret' = ret
              /\ xpc' = "args"
    /\ UNCHANGED <<xctx, xin, re, em, panicv, xcnt>>

\* the argument check made under an already installed deferred Close
CheckArguments_Closing ==
    /\ xpc = "args"
    /\ xcnt' = [xcnt EXCEPT !.argsChecked = TRUE]
    /\ IF ~xin.argsOK
         THEN /\ ret' = "ArgErr"
              /\ em' = [em EXCEPT ![re] = EmitterClose(@, "exec")]
              /\ xpc' = "done"
         ELSE /\ ret' = ret
              /\ em' = em
              /\ xpc' = "enc"
    /\ UNCHANGED <<xctx, xin, re, panicv>>

\* executor.go:34-37
CheckArguments ==
    /\ xpc = "args"
    /\ xcnt' = [xcnt EXCEPT !.argsChecked = TRUE]
    /\ IF ~xin.argsOK
         THEN /\ ret' = "ArgErr"
              /\ xpc' = "done"
         ELSE /\ ret' = ret
              /\ xpc' = "enc"
    /\ UNCHANGED <<xctx, xin, re, em, panicv>>

\* the selection without the step from Text to JSON
ChooseEncoder_NoUpgrade(encType, cmdEncs) ==
    IF encType \in cmdEncs THEN <<"cmd", encType>>
    ELSE IF encType \in Encoders THEN <<"global", encType>>
    ELSE <<"global", JSON>>

\* executor.go:42-56: the encoder handed to ee.SetEncoder
ChooseEncoder(encType, cmdEncs) ==
    LET t == IF encType = Text /\ encType \notin cmdEncs THEN JSON ELSE encType
    IN  IF t \in cmdEncs THEN <<"cmd", t>>
        ELSE IF t \in Encoders THEN <<"global", t>>
        ELSE <<"global", JSON>>

\* executor.go:41-57
SelectEncoder ==
    /\ xpc = "enc"
    /\ em' = IF xin.isEE
               THEN [em EXCEPT ![re] =
                        EmitterSetEncoder(@, ChooseEncoder(xin.encType, xin.cmdEncs))]
               ELSE em
    /\ xpc' = "timeout"
    /\ UNCHANGED <<xctx, xin, re, ret, panicv, xcnt>>

\* the timeout parsed but req.Context left as it was
ApplyTimeout_NoReplace ==
    /\ xpc = "timeout"
    /\ CASE xin.timeoutOpt = "none" ->
              /\ xpc' = "prerun"
              /\ UNCHANGED <<ret, xcnt>>
         [] xin.timeoutOpt = "bad" ->
              /\ ret' = "ParseErr"
              /\ xpc' = "done"
              /\ UNCHANGED xcnt
         [] xin.timeoutOpt = "good" ->
              /\ xcnt' = [xcnt EXCEPT !.ctxReplaced = TRUE]
              /\ xpc' = "prerun"
              /\ UNCHANGED ret
    /\ UNCHANGED <<xctx, xin, re, em, panicv>>

\* executor.go:59-65.  context.WithTimeout on the nil context the HTTP
\* handler stores in req.Context panics (a nil dereference or an explicit
\* panic, depending on the Go release) before any deferred call of Execute
\* is installed.
ApplyTimeout ==
    /\ xpc = "timeout"
    /\ CASE xin.timeoutOpt = "none" ->
              /\ xpc' = "prerun"
              /\ UNCHANGED <<ret, xcnt, xctx, panicv>>
         [] xin.timeoutOpt = "bad" ->
              /\ ret' = "ParseErr"
              /\ xpc' = "done"
              /\ UNCHANGED <<xcnt, xctx, panicv>>
         [] xin.timeoutOpt = "good" /\ reqCtx = "nil" ->
              /\ panicv' \in {"err", "other"}
              /\ xpc' = "done"
              /\ UNCHANGED <<ret, xcnt, xctx>>
         [] xin.timeoutOpt = "good" /\ reqCtx # "nil" ->
              /\ xcnt' = [xcnt EXCEPT !.ctxReplaced = TRUE]
              /\ xctx' = [xctx EXCEPT !.cur = "child"]
              /\ xpc' = "prerun"
              /\ UNCHANGED <<ret, panicv>>
    /\ UNCHANGED <<xin, re, em>>

\* the error of PreRun dropped: Execute goes on to the PostRun wrap and Run
PreRun_ErrorIgnored ==
    /\ xpc = "prerun"
    /\ xcnt' = IF xin.preRun = "nil" THEN xcnt
               ELSE [xcnt EXCEPT !.preRunCalls = @ + 1, !.preRunCtx = xctx.cur]
    /\ xpc' = "postrun"
    /\ UNCHANGED <<xctx, xin, re, em, panicv, ret>>

\* executor.go:67-72
PreRun ==
    /\ xpc = "prerun"
    /\ CASE xin.preRun = "nil" ->
              /\ xpc' = "postrun"
              /\ UNCHANGED <<ret, xcnt>>
         [] xin.preRun = "ok" ->
              /\ xcnt' = [xcnt EXCEPT !.preRunCalls = @ + 1, !.preRunCtx = xctx.cur]
              /\ xpc' = "postrun"
              /\ UNCHANGED ret
         [] xin.preRun = "err" ->
              /\ xcnt' = [xcnt EXCEPT !.preRunCalls = @ + 1, !.preRunCtx = xctx.cur]
              /\ ret' = "PreRunErr"
              /\ xpc' = "done"
    /\ UNCHANGED <<xctx, xin, re, em, panicv>>

\* executor.go:75-78
PostRunWrap ==
    /\ xpc = "postrun"
    /\ IF xin.hasPostRun
         THEN /\ re' = "up"
              /\ xcnt' = [xcnt EXCEPT !.postRunCalls = @ + 1]
         ELSE UNCHANGED <<re, xcnt>>
    /\ xpc' = "run"
    /\ UNCHANGED <<xctx, xin, em, ret, panicv>>

\* executor.go:100: cmd.Run(req, re, env); Run emits, may close, returns or panics
Run ==
    /\ xpc = "run"
    /\ LET emitted == EmitN(em[re], xin.runEmits, "run")
           after   == IF xin.runCloses THEN EmitterClose(emitted, "run") ELSE emitted
       IN  em' = [em EXCEPT ![re] = after]
    /\ xcnt' = [xcnt EXCEPT !.runCalls = @ + 1, !.closedAtRun = xin.runCloses,
                            !.runCtx = xctx.cur]
    /\ panicv' = CASE xin.runOutcome = "panicErr"   -> "err"
                   [] xin.runOutcome = "panicOther" -> "other"
                   [] OTHER                         -> "none"
    /\ xpc' = "guard"
    /\ UNCHANGED <<xctx, xin, re, ret>>

\* executor.go:83-99 (and the return nil of line 101 when Run returned)
RecoverGuard ==
    /\ xpc = "guard"
    /\ CASE panicv = "err" ->
              /\ ret' = IF EmitOK(em[re]) THEN "nil" ELSE "EmitErr"
              /\ em' = [em EXCEPT ![re] = EmitterEmit(@, "exec")]
              /\ panicv' = "none"
         [] panicv = "other" ->
              UNCHANGED <<ret, em, panicv>>
         [] OTHER ->
              /\ ret' = "nil"
              /\ UNCHANGED <<em, panicv>>
    /\ xpc' = "close"
    /\ UNCHANGED <<xctx, xin, re, xcnt>>

\* Close called after Run instead of deferred: skipped while a panic unwinds
DeferClose_NotDeferred ==
    /\ xpc = "close"
    /\ em' = IF panicv = "none" THEN [em EXCEPT ![re] = EmitterClose(@, "exec")] ELSE em
    /\ xpc' = "done"
    /\ UNCHANGED <<xctx, xin, re, ret, panicv, xcnt>>

\* Close called only when the emitter is still open
DeferClose_IfOpen ==
    /\ xpc = "close"
    /\ em' = IF em[re].closed THEN em ELSE [em EXCEPT ![re] = EmitterClose(@, "exec")]
    /\ xpc' = "done"
    /\ UNCHANGED <<xctx, xin, re, ret, panicv, xcnt>>

\* the deferred Close bound to the emitter Execute was called with
DeferClose_Original ==
    /\ xpc = "close"
    /\ em' = [em EXCEPT !["orig"] = EmitterClose(@, "exec")]
    /\ xpc' = "done"
    /\ UNCHANGED <<xctx, xin, re, ret, panicv, xcnt>>

\* executor.go:80-82
DeferClose ==
    /\ xpc = "close"
    /\ em' = [em EXCEPT ![re] = EmitterClose(@, "exec")]
    /\ xpc' = "done"
    /\ UNCHANGED <<xctx, xin, re, ret, panicv, xcnt>>


\* the context Execute was called with is cancelled
CancelPrevious ==
    /\ xpc # "done"
    /\ ~xctx.prevCancelled
    /\ xctx' = [xctx EXCEPT !.prevCancelled = TRUE]
    /\ UNCHANGED <<xin, xpc, re, em, ret, panicv, xcnt>>

\* the deadline of the context derived at executor.go:64 passes
TimeoutElapses ==
    /\ xpc # "done"
    /\ xctx.cur = "child"
    /\ ~xctx.elapsed
    /\ xctx' = [xctx EXCEPT !.elapsed = TRUE]
    /\ UNCHANGED <<xin, xpc, re, em, ret, panicv, xcnt>>

(***************************************************************************)
(* http/handler.go                                                         *)
(***************************************************************************)
OriginHeaders == {"", "https://good.example", "https://evil.example"}

RefererHeaders ==
    {"", "https://good.example/webui", "https://evil.example/x", "good.example", "%zz"}

AllowedOriginLists ==
    {<<>>, <<"https://good.example">>, <<"*">>,
     <<"https://other.example", "https://good.example">>}

\* net/url.Parse on the referers above: "%zz" is an invalid escape, a
\* referer without "//" has neither scheme nor host
ParseURL(s) ==
    CASE s = "https://good.example/webui" ->
             [err |-> FALSE, Scheme |-> "https", Host |-> "good.example"]
      [] s = "https://evil.example/x" ->
             [err |-> FALSE, Scheme |-> "https", Host |-> "evil.example"]
      [] s = "%zz" ->
             [err |-> TRUE, Scheme |-> "", Host |-> ""]
      [] OTHER ->
             [err |-> FALSE, Scheme |-> "", Host |-> ""]

\* handler.go:262-272 and 303-314: the loop over the allowed origins
RECURSIVE OriginListed(_, _)
OriginListed(origins, origin) ==
    IF origins = <<>> THEN FALSE
    ELSE IF Head(origins) = "*" THEN TRUE
    ELSE IF Head(origins) = origin THEN TRUE
    ELSE OriginListed(Tail(origins), origin)

\* handler.go:252-273
allowOrigin(origin, origins) ==
    IF origin = "" THEN TRUE ELSE OriginListed(origins, origin)

\* the wildcard consulted before the referer is parsed
allowReferer_WildcardFirst(referer, origins) ==
    IF referer = "" THEN TRUE
    ELSE IF OriginListed(origins, "*") THEN TRUE
    ELSE LET u == ParseURL(referer)
         IN  IF u.err THEN FALSE
             ELSE OriginListed(origins, u.Scheme \o "://" \o u.Host)

\* handler.go:280-315
allowReferer(referer, origins) ==
    IF referer = "" THEN TRUE
    ELSE LET u == ParseURL(referer)
         IN  IF u.err THEN FALSE
             ELSE OriginListed(origins, u.Scheme \o "://" \o u.Host)

\* what Execute returns to root.Call (executor.go:31, 35, 62, 70, 89, 101)
ExecuteResults == {"nil", "ErrNotCallable", "ArgErr", "ParseErr", "PreRunErr", "EmitErr"}

\* the errors Execute returns before it touches the emitter's output
DispatchErrors == {"ErrNotCallable", "ArgErr", "ParseErr"}

\* err.Error(): the text of ErrNotFound (handler.go:38); the other errors
\* come from outside the handler and are named by their symbol
ErrorText(e) ==
    IF e = "ErrNotFound" THEN "404 page not found" ELSE e \o ".Error()"

HTTPInputs ==
    [hasContexter     : BOOLEAN,       \* i.env implements contexter
     hasCloseNotifier : BOOLEAN,       \* w implements http.CloseNotifier
     hasRequestAdder  : BOOLEAN,       \* i.env implements requestAdder
     origin           : OriginHeaders,
     referer          : RefererHeaders,
     allowed          : AllowedOriginLists,
     parseResult      : {"ok", "ErrNotFound", "other"},
     callResult       : ExecuteResults \cup {"panic"}]

NoHTTPCounts ==
    [parsed |-> FALSE, addCalls |-> 0, doneCalls |-> 0, callCalls |-> 0,
     cancelDeferred |-> FALSE, panicking |-> FALSE, recovered |-> FALSE,
     body |-> ""]

NoContexts ==
    [parentDone |-> FALSE, derived |-> FALSE, derivedCancelled |-> FALSE,
     clientGone |-> FALSE, ctx |-> "nil"]

InitHTTP ==
    /\ hin \in HTTPInputs
    /\ hpc = "start"
    /\ wpc = "none"
    /\ hctx = NoContexts
    /\ reqCtx = "unset"
    /\ status = 0
    /\ hcnt = NoHTTPCounts

\* the derived context is done once it is cancelled or its parent is done
DerivedDone == hctx.derived /\ (hctx.derivedCancelled \/ hctx.parentDone)

\* the context held by req.Context is done
ReqCtxDone == reqCtx = "derived" /\ DerivedDone

\* handler.go:137-151: the ctx declared by := inside the if block shadows the
\* handler's variable ctx, which stays nil
SetupContext ==
    /\ hpc = "start"
    /\ IF hin.hasContexter
         THEN /\ hctx' = [hctx EXCEPT !.derived = TRUE, !.ctx = "nil"]
              /\ hcnt' = [hcnt EXCEPT !.cancelDeferred = TRUE]
              /\ wpc' = IF hin.hasCloseNotifier THEN "waiting" ELSE "none"
         ELSE UNCHANGED <<hctx, hcnt, wpc>>
    /\ hpc' = "check"
    /\ UNCHANGED <<hin, reqCtx, status>>

\* handler.go:143-149: the goroutine waiting for clientGone or ctx.Done()
Watcher ==
    /\ wpc = "waiting"
    /\ hctx.clientGone \/ DerivedDone
    /\ hctx' = [hctx EXCEPT !.derivedCancelled = TRUE]
    /\ wpc' = "done"
    /\ UNCHANGED <<hin, hpc, reqCtx, status, hcnt>>

\* the request rejected only when both predicates fail
CheckOrigin_BothFail ==
    /\ hpc = "check"
    /\ IF ~allowOrigin(hin.origin, hin.allowed) /\ ~allowReferer(hin.referer, hin.allowed)
         THEN /\ status' = 403
              /\ hcnt' = [hcnt EXCEPT !.body = "403 - Forbidden"]
              /\ hpc' = "return"
         ELSE /\ status' = status
              /\ hcnt' = hcnt
              /\ hpc' = "parse"
    /\ UNCHANGED <<hin, wpc, hctx, reqCtx>>

\* handler.go:153-158
CheckOrigin ==
    /\ hpc = "check"
    /\ IF ~allowOrigin(hin.origin, hin.allowed) \/ ~allowReferer(hin.referer, hin.allowed)
         THEN /\ status' = 403
              /\ hcnt' = [hcnt EXCEPT !.body = "403 - Forbidden"]
              /\ hpc' = "return"
         ELSE /\ status' = status
              /\ hcnt' = hcnt
              /\ hpc' = "parse"
    /\ UNCHANGED <<hin, wpc, hctx, reqCtx>>

\* every parse failure answered 400
ParseRequest_AllBadRequest ==
    /\ hpc = "parse"
    /\ IF hin.parseResult = "ok"
         THEN /\ hcnt' = [hcnt EXCEPT !.parsed = TRUE]
              /\ reqCtx' = hctx.ctx
              /\ hpc' = "add"
              /\ UNCHANGED status
         ELSE /\ hcnt' = [hcnt EXCEPT !.parsed = TRUE, !.body = ErrorText(hin.parseResult)]
              /\ status' = 400
              /\ hpc' = "return"
              /\ UNCHANGED reqCtx
    /\ UNCHANGED <<hin, wpc, hctx>>

\* handler.go:160-169: parseRequest(ctx, r, i.root)
ParseRequest ==
    /\ hpc = "parse"
    /\ CASE hin.parseResult = "ok" ->
              /\ hcnt' = [hcnt EXCEPT !.parsed = TRUE]
              /\ reqCtx' = hctx.ctx
              /\ hpc' = "add"
              /\ UNCHANGED status
         [] hin.parseResult = "ErrNotFound" ->
              /\ hcnt' = [hcnt EXCEPT !.parsed = TRUE, !.body = ErrorText(hin.parseResult)]
              /\ status' = 404
              /\ hpc' = "return"
              /\ UNCHANGED reqCtx
         [] hin.parseResult = "other" ->
              /\ hcnt' = [hcnt EXCEPT !.parsed = TRUE, !.body = ErrorText(hin.parseResult)]
              /\ status' = 400
              /\ hpc' = "return"
              /\ UNCHANGED reqCtx
    /\ UNCHANGED <<hin, wpc, hctx>>

\* handler.go:171-174
AddRequest ==
    /\ hpc = "add"
    /\ hcnt' = IF hin.hasRequestAdder THEN [hcnt EXCEPT !.addCalls = @ + 1] ELSE hcnt
    /\ hpc' = "setctx"
    /\ UNCHANGED <<hin, wpc, hctx, reqCtx, status>>

\* handler.go:176-185: req.Context = ctx, headers, NewResponseEmitter
SetRequestContext ==
    /\ hpc = "setctx"
    /\ reqCtx' = hctx.ctx
    /\ hpc' = "call"
    /\ UNCHANGED <<hin, wpc, hctx, status, hcnt>>

\* handler.go:188: i.root.Call(req, re, i.env) starts
CallCommand ==
    /\ hpc = "call"
    /\ hcnt' = [hcnt EXCEPT !.callCalls = @ + 1]
    /\ hpc' = "calling"
    /\ UNCHANGED <<hin, wpc, hctx, reqCtx, status>>

\* handler.go:188-193: Call returns nil, returns an error, or panics.  An
\* error is answered with http.Error(w, err.Error(), 500); the emitter has
\* written nothing when Execute returns a dispatch error or the error of
\* PreRun, and may have sent the 200 header when the guard's Emit failed.
CallReturnsWith(result) ==
    /\ hpc = "calling"
    /\ CASE result = "nil" ->
              /\ status' = 200
              /\ UNCHANGED hcnt
         [] result = "panic" ->
              /\ hcnt' = [hcnt EXCEPT !.panicking = TRUE]
              /\ UNCHANGED status
         [] result = "EmitErr" ->
              /\ status' \in {200, 500}
              /\ hcnt' = [hcnt EXCEPT !.body = ErrorText(result)]
         [] OTHER ->
              /\ status' = 500
              /\ hcnt' = [hcnt EXCEPT !.body = ErrorText(result)]
    /\ hpc' = "return"
    /\ UNCHANGED <<hin, wpc, hctx, reqCtx>>

\* the call of the command seen from the handler alone: its outcome is an input
CallReturns == CallReturnsWith(hin.callResult)

\* the handler without the recover of lines 129-135: a panic keeps unwinding
HandlerReturn_NoRecover ==
    /\ hpc = "return"
    /\ hcnt' = [hcnt EXCEPT !.doneCalls = IF hcnt.addCalls > 0 THEN @ + 1 ELSE @]
    /\ hctx' = IF hcnt.cancelDeferred THEN [hctx EXCEPT !.derivedCancelled = TRUE] ELSE hctx
    /\ hpc' = "done"
    /\ UNCHANGED <<hin, wpc, reqCtx, status>>

\* cancel() called at the end of the body rather than deferred: a panic of
\* the command skips it
HandlerReturn_CancelNotDeferred ==
    /\ hpc = "return"
    /\ hcnt' = [hcnt EXCEPT !.doneCalls = IF hcnt.addCalls > 0 THEN @ + 1 ELSE @,
                            !.panicking = FALSE,
                            !.recovered = hcnt.panicking]
    /\ hctx' = IF hcnt.cancelDeferred /\ ~hcnt.panicking
                 THEN [hctx EXCEPT !.derivedCancelled = TRUE] ELSE hctx
    /\ hpc' = "done"
    /\ UNCHANGED <<hin, wpc, reqCtx, status>>

\* done() called at the end of the body rather than deferred: a panic of
\* the command skips it
HandlerReturn_DoneNotDeferred ==
    /\ hpc = "return"
    /\ hcnt' = [hcnt EXCEPT !.doneCalls = IF hcnt.addCalls > 0 /\ ~hcnt.panicking
                                            THEN @ + 1 ELSE @,
                            !.panicking = FALSE,
                            !.recovered = hcnt.panicking]
    /\ hctx' = IF hcnt.cancelDeferred THEN [hctx EXCEPT !.derivedCancelled = TRUE] ELSE hctx
    /\ hpc' = "done"
    /\ UNCHANGED <<hin, wpc, reqCtx, status>>

\* the deferred calls, last first: done() (line 173), cancel() (line 140),
\* the recover of lines 129-135
HandlerReturn ==
    /\ hpc = "return"
    /\ hcnt' = [hcnt EXCEPT !.doneCalls = IF hcnt.addCalls > 0 THEN @ + 1 ELSE @,
                            !.panicking = FALSE,
                            !.recovered = hcnt.panicking]
    /\ hctx' = IF hcnt.cancelDeferred THEN [hctx EXCEPT !.derivedCancelled = TRUE] ELSE hctx
    /\ hpc' = "done"
    /\ UNCHANGED <<hin, wpc, reqCtx, status>>

\* the client closes the connection: w.CloseNotify() fires
ClientGone ==
    /\ hpc # "done"
    /\ ~hctx.clientGone
    /\ hctx' = [hctx EXCEPT !.clientGone = TRUE]
    /\ UNCHANGED <<hin, hpc, wpc, reqCtx, status, hcnt>>

\* the context returned by the env's Context() is cancelled
ParentDone ==
    /\ hpc # "done"
    /\ hin.hasContexter
    /\ ~hctx.parentDone
    /\ hctx' = [hctx EXCEPT !.parentDone = TRUE]
    /\ UNCHANGED <<hin, hpc, wpc, reqCtx, status, hcnt>>


(***************************************************************************)
(* ServerConfig and its accessors (handler.go:203-248)                     *)
(***************************************************************************)
Goroutines == 1..NumGoroutines

ReadAccessors == {"AllowedOrigins", "AllowedMethods"}

WriteAccessors ==
    {"SetAllowedOrigins", "AppendAllowedOrigins", "SetAllowedMethods", "SetAllowCredentials"}

OriginArgs == {<<"https://good.example">>, <<"*">>}

MethodArgs == {<<"GET">>, <<"POST">>}

AccessorArgs(op) ==
    CASE op \in {"SetAllowedOrigins", "AppendAllowedOrigins"} -> OriginArgs
      [] op = "SetAllowedMethods"   -> MethodArgs
      [] op = "SetAllowCredentials" -> BOOLEAN
      [] OTHER                      -> {<<>>}

Unlocked == [writer |-> 0, readers |-> 0]

\* handler.go:203-207
NewServerConfig ==
    [AllowedOrigins |-> <<>>, AllowedMethods |-> <<>>, AllowCredentials |-> FALSE]

AtRest ==
    [op |-> "none", arg |-> <<>>, pc |-> "idle", copy |-> Unlocked,
     result |-> <<>>, calls |-> 0]

InitConfig ==
    /\ mu = Unlocked
    /\ opts = NewServerConfig
    /\ gs = [g \in Goroutines |-> AtRest]

\* The call of an accessor.  AllowedOrigins and AllowedMethods have the value
\* receiver (cfg ServerConfig): the call copies the whole struct, the mutex
\* in its current state included, and the accessor works on the copy; the
\* field corsOpts is a pointer, so the copy shares the options.
CallAccessor(g) ==
    /\ gs[g].pc = "idle"
    /\ gs[g].calls < MaxCalls
    /\ \E op \in ReadAccessors \cup WriteAccessors :
         \E a \in AccessorArgs(op) :
            /\ op = "AppendAllowedOrigins" => Len(opts.AllowedOrigins) < MaxOrigins
            /\ gs' = [gs EXCEPT ![g] = [@ EXCEPT !.op = op, !.arg = a, !.pc = "lock",
                                                 !.copy = IF op \in ReadAccessors
                                                            THEN mu ELSE Unlocked]]
    /\ UNCHANGED <<mu, opts>>

\* handler.go:210 and 230: RLock on the receiver's own copy of the mutex; a
\* copy taken while a writer held the lock never becomes free
AcquireRLock(g) ==
    /\ gs[g].pc = "lock"
    /\ gs[g].op \in ReadAccessors
    /\ gs[g].copy.writer = 0
    /\ gs' = [gs EXCEPT ![g] = [@ EXCEPT !.pc = "cs", !.copy.readers = @ + 1]]
    /\ UNCHANGED <<mu, opts>>

\* handler.go:212 and 232
ReadOptions(g) ==
    /\ gs[g].pc = "cs"
    /\ gs[g].op \in ReadAccessors
    /\ gs' = [gs EXCEPT ![g] = [@ EXCEPT !.pc = "unlock",
                                         !.result = IF gs[g].op = "AllowedOrigins"
                                                      THEN opts.AllowedOrigins
                                                      ELSE opts.AllowedMethods]]
    /\ UNCHANGED <<mu, opts>>

\* handler.go:211 and 231
ReleaseRLock(g) ==
    /\ gs[g].pc = "unlock"
    /\ gs[g].op \in ReadAccessors
    /\ gs' = [gs EXCEPT ![g] = [@ EXCEPT !.pc = "idle", !.op = "none", !.arg = <<>>,
                                         !.copy = Unlocked, !.result = <<>>,
                                         !.calls = @ + 1]]
    /\ UNCHANGED <<mu, opts>>

\* handler.go:216, 224, 236, 245: Lock on the shared mutex
AcquireLock(g) ==
    /\ gs[g].pc = "lock"
    /\ gs[g].op \in WriteAccessors
    /\ mu.writer = 0 /\ mu.readers = 0
    /\ mu' = [mu EXCEPT !.writer = g]
    /\ gs' = [gs EXCEPT ![g] = [@ EXCEPT !.pc = "cs"]]
    /\ UNCHANGED opts

\* handler.go:218-220, 226, 238-241, 247
WriteOptions(g) ==
    /\ gs[g].pc = "cs"
    /\ gs[g].op \in WriteAccessors
    /\ opts' = CASE gs[g].op = "SetAllowedOrigins" ->
                      [opts EXCEPT !.AllowedOrigins = gs[g].arg]
                 [] gs[g].op = "AppendAllowedOrigins" ->
                      [opts EXCEPT !.AllowedOrigins = @ \o gs[g].arg]
                 [] gs[g].op = "SetAllowedMethods" ->
                      [opts EXCEPT !.AllowedMethods = gs[g].arg]
                 [] gs[g].op = "SetAllowCredentials" ->
                      [opts EXCEPT !.AllowCredentials = gs[g].arg]
    /\ gs' = [gs EXCEPT ![g] = [@ EXCEPT !.pc = "unlock"]]
    /\ UNCHANGED mu

\* handler.go:217, 225, 237, 246
ReleaseLock(g) ==
    /\ gs[g].pc = "unlock"
    /\ gs[g].op \in WriteAccessors
    /\ mu' = [mu EXCEPT !.writer = 0]
    /\ gs' = [gs EXCEPT ![g] = [@ EXCEPT !.pc = "idle", !.op = "none", !.arg = <<>>,
                                         !.calls = @ + 1]]
    /\ UNCHANGED opts

(***************************************************************************)
(* The channel response pair (NewChanResponsePair)                         *)
(*                                                                         *)
(* Emit hands its value to a Next of the consumer over a rendezvous; both  *)
(* wait in a select on the channel and on the Done channel of the request  *)
(* context.  A rendezvous happens only while the context is not done: a    *)
(* goroutine waiting in its select when the context is cancelled takes the *)
(* Done case, and one arriving later finds nobody waiting.  Length() waits *)
(* until the producer has started streaming (its first Emit or its Close). *)
(***************************************************************************)
Pairs == {"up", "down"}

Vals == {3, 7}

NewChanPair == [closed |-> FALSE, started |-> FALSE, length |-> 0, closeCalls |-> 0]

\* emitter.SetLength(n): recorded only before streaming starts
ChanSetLength(c, n) == IF c.closed \/ c.started THEN c ELSE [c EXCEPT !.length = n]

\* emitter.Emit begins: it fails on a closed emitter, else streaming starts
ChanEmitFails(c) == c.closed

ChanEmitBegin(c) == [c EXCEPT !.started = TRUE]

\* emitter.Close: later Next calls see end-of-stream; closing again changes nothing
ChanClose(c) == [c EXCEPT !.closed = TRUE, !.started = TRUE, !.closeCalls = @ + 1]

\* response.Length() can return
ChanLengthReady(c) == c.started

\* the ways a pending Next can complete
NextSeesEOF(c) == c.closed

NextSeesCancel == ctxDone

\* the ways a pending Emit can complete
EmitSeesCancel == ctxDone

CanRendezvous == ~ctxDone

\* all sequences over S of length lo..hi
SeqsOf(S, lo, hi) == UNION {[1..n -> S] : n \in lo..hi}

InitChan ==
    /\ pairs = [p \in Pairs |-> NewChanPair]
    /\ ctxDone = FALSE
    /\ prod = [pc |-> "idle", length |-> 0, emit |-> <<>>, sent |-> 0, results |-> <<>>,
               callRet |-> "none"]
    /\ stage = [pc |-> "idle", l |-> 0, v |-> 0, errs |-> 0]
    /\ cons = [pc |-> "idle", length |-> 0, got |-> <<>>, results |-> <<>>,
               nexts |-> 0, nextsBeforeCancel |-> 0]

(***************************************************************************)
(* TestPostRun (part_000:297-430)                                          *)
(***************************************************************************)
\* part_000:298-304 and 386-389: the test case, the pairs, the stage started.
\* The request context is context.TODO(), which is never done: an Emit or a
\* Next of this test ends by a rendezvous, by end-of-stream or on a closed
\* emitter only.
InitPostRun ==
    /\ pairs = [p \in Pairs |-> NewChanPair]
    /\ ctxDone = FALSE
    /\ \E L \in {0, 3} : \E vs \in SeqsOf(Vals, 0, MaxRunEmits) :
          prod = [pc |-> "setlength", length |-> L, emit |-> vs, sent |-> 0,
                  results |-> <<>>, callRet |-> "none"]
    /\ stage = [pc |-> "length", l |-> 0, v |-> 0, errs |-> 0]
    /\ cons = [pc |-> "length", length |-> 0, got |-> <<>>, results |-> <<>>,
               nexts |-> 0, nextsBeforeCancel |-> 0]

\* part_000:342
RunSetLength ==
    /\ prod.pc = "setlength"
    /\ pairs' = [pairs EXCEPT !["up"] = ChanSetLength(@, prod.length)]
    /\ prod' = [prod EXCEPT !.pc = "emit"]
    /\ UNCHANGED <<ctxDone, stage, cons>>

\* part_000:344-349: the next re.Emit(v) begins, or the loop ends
RunEmit ==
    /\ prod.pc = "emit"
    /\ IF prod.sent = Len(prod.emit)
         THEN /\ prod' = [prod EXCEPT !.pc = "close"]
              /\ UNCHANGED pairs
         ELSE IF ChanEmitFails(pairs["up"])
         THEN /\ prod' = [prod EXCEPT !.pc = "failed", !.results = Append(@, "closed")]
              /\ UNCHANGED pairs
         ELSE /\ prod' = [prod EXCEPT !.pc = "sending"]
              /\ pairs' = [pairs EXCEPT !["up"] = ChanEmitBegin(@)]
    /\ UNCHANGED <<ctxDone, stage, cons>>

\* the Emit of Run meets the res.Next() of the stage (part_000:345 and 314)
RunEmitDelivered ==
    /\ prod.pc = "sending"
    /\ stage.pc = "next"
    /\ CanRendezvous
    /\ prod' = [prod EXCEPT !.pc = "emit", !.sent = @ + 1, !.results = Append(@, "ok")]
    /\ stage' = [stage EXCEPT !.pc = "emit", !.v = prod.emit[prod.sent + 1]]
    /\ UNCHANGED <<pairs, ctxDone, cons>>

\* part_000:350-353: Run closes its emitter
RunClose ==
    /\ prod.pc = "close"
    /\ pairs' = [pairs EXCEPT !["up"] = ChanClose(@)]
    /\ prod' = [prod EXCEPT !.pc = "ran"]
    /\ UNCHANGED <<ctxDone, stage, cons>>

\* executor.go:80-82 and 101: Run has returned, the deferred re.Close(), return nil
ExecuteReturns ==
    /\ prod.pc = "ran"
    /\ pairs' = [pairs EXCEPT !["up"] = ChanClose(@)]
    /\ prod' = [prod EXCEPT !.pc = "returned", !.callRet = "nil"]
    /\ UNCHANGED <<ctxDone, stage, cons>>

\* part_000:310: l := res.Length()
StageLength ==
    /\ stage.pc = "length"
    /\ ChanLengthReady(pairs["up"])
    /\ stage' = [stage EXCEPT !.pc = "setlength", !.l = pairs["up"].length]
    /\ UNCHANGED <<pairs, ctxDone, prod, cons>>

\* the stage forwarding the length unchanged
StageSetLength_Same ==
    /\ stage.pc = "setlength"
    /\ pairs' = [pairs EXCEPT !["down"] = ChanSetLength(@, stage.l)]
    /\ stage' = [stage EXCEPT !.pc = "next"]
    /\ UNCHANGED <<ctxDone, prod, cons>>

\* part_000:311: re.SetLength(l + 1)
StageSetLength ==
    /\ stage.pc = "setlength"
    /\ pairs' = [pairs EXCEPT !["down"] = ChanSetLength(@, stage.l + 1)]
    /\ stage' = [stage EXCEPT !.pc = "next"]
    /\ UNCHANGED <<ctxDone, prod, cons>>

\* part_000:314-317: res.Next() returns io.EOF
StageNextEOF ==
    /\ stage.pc = "next"
    /\ NextSeesEOF(pairs["up"])
    /\ stage' = [stage EXCEPT !.pc = "close"]
    /\ UNCHANGED <<pairs, ctxDone, prod, cons>>

\* part_000:324-330: re.Emit(2 * i) begins; on an error the stage returns
StageEmit ==
    /\ stage.pc = "emit"
    /\ IF ChanEmitFails(pairs["down"])
         THEN /\ stage' = [stage EXCEPT !.pc = "close", !.errs = @ + 1]
              /\ UNCHANGED pairs
         ELSE /\ stage' = [stage EXCEPT !.pc = "sending", !.v = 2 * @]
              /\ pairs' = [pairs EXCEPT !["down"] = ChanEmitBegin(@)]
    /\ UNCHANGED <<ctxDone, prod, cons>>

\* the Emit of the stage meets the res.Next() of the test (part_000:326 and 403)
StageEmitDelivered ==
    /\ stage.pc = "sending"
    /\ cons.pc = "next"
    /\ CanRendezvous
    /\ stage' = [stage EXCEPT !.pc = "next"]
    /\ cons' = [cons EXCEPT !.got = Append(@, stage.v), !.results = Append(@, "ok"),
                            !.nexts = @ + 1]
    /\ UNCHANGED <<pairs, ctxDone, prod>>

\* part_000:309: defer re.Close()
StageClose ==
    /\ stage.pc = "close"
    /\ pairs' = [pairs EXCEPT !["down"] = ChanClose(@)]
    /\ stage' = [stage EXCEPT !.pc = "done"]
    /\ UNCHANGED <<ctxDone, prod, cons>>

\* part_000:394-397: l := res.Length()
TestLength ==
    /\ cons.pc = "length"
    /\ ChanLengthReady(pairs["down"])
    /\ cons' = [cons EXCEPT !.pc = "next", !.length = pairs["down"].length]
    /\ UNCHANGED <<pairs, ctxDone, prod, stage>>

\* part_000:403 and 425-428: res.Next() returns io.EOF
TestNextEOF ==
    /\ cons.pc = "next"
    /\ NextSeesEOF(pairs["down"])
    /\ cons' = [cons EXCEPT !.pc = "done", !.results = Append(@, "EOF"), !.nexts = @ + 1]
    /\ UNCHANGED <<pairs, ctxDone, prod, stage>>


(***************************************************************************)
(* TestCancel (part_000:432-461): a producer goroutine emitting and then   *)
(* closing, the test cancelling the context and calling Next               *)
(***************************************************************************)
InitCancel ==
    /\ pairs = [p \in Pairs |-> NewChanPair]
    /\ ctxDone = FALSE
    /\ \E vs \in SeqsOf(Vals, 1, MaxRunEmits) :
          prod = [pc |-> "emit", length |-> 0, emit |-> vs, sent |-> 0,
                  results |-> <<>>, callRet |-> "none"]
    /\ stage = [pc |-> "idle", l |-> 0, v |-> 0, errs |-> 0]
    /\ cons = [pc |-> "run", length |-> 0, got |-> <<>>, results |-> <<>>,
               nexts |-> 0, nextsBeforeCancel |-> 0]

\* part_000:444: re.Emit(v) begins, or the producer has emitted everything
ProducerEmit ==
    /\ prod.pc = "emit"
    /\ IF prod.sent = Len(prod.emit)
         THEN /\ prod' = [prod EXCEPT !.pc = "close"]
              /\ UNCHANGED pairs
         ELSE /\ prod' = [prod EXCEPT !.pc = "sending"]
              /\ pairs' = [pairs EXCEPT !["up"] = ChanEmitBegin(@)]
    /\ UNCHANGED <<ctxDone, stage, cons>>

\* the Emit meets a Next of the consumer
ProducerEmitDelivered ==
    /\ prod.pc = "sending"
    /\ cons.pc = "receiving"
    /\ CanRendezvous
    /\ prod' = [prod EXCEPT !.pc = "emit", !.sent = @ + 1, !.results = Append(@, "ok")]
    /\ cons' = [cons EXCEPT !.pc = "run", !.got = Append(@, prod.emit[prod.sent + 1]),
                            !.results = Append(@, "ok")]
    /\ UNCHANGED <<pairs, ctxDone, stage>>

\* part_000:444-448: the Emit returns ctx.Err(); the producer goes on to close
ProducerEmitCancelled ==
    /\ prod.pc = "sending"
    /\ EmitSeesCancel
    /\ prod' = [prod EXCEPT !.pc = "close", !.results = Append(@, "Canceled")]
    /\ UNCHANGED <<pairs, ctxDone, stage, cons>>

\* part_000:449-450: re.Close()
ProducerClose ==
    /\ prod.pc = "close"
    /\ pairs' = [pairs EXCEPT !["up"] = ChanClose(@)]
    /\ prod' = [prod EXCEPT !.pc = "done"]
    /\ UNCHANGED <<ctxDone, stage, cons>>

\* part_000:453: cancel()
Cancel ==
    /\ cons.pc = "run"
    /\ ~ctxDone
    /\ ctxDone' = TRUE
    /\ UNCHANGED <<pairs, prod, stage, cons>>

\* part_000:455: res.Next() is called
ConsumerNext ==
    /\ cons.pc = "run"
    /\ cons.nexts < MaxNexts
    /\ cons' = [cons EXCEPT !.pc = "receiving", !.nexts = @ + 1,
                            !.nextsBeforeCancel = IF ctxDone THEN @ ELSE @ + 1]
    /\ UNCHANGED <<pairs, ctxDone, prod, stage>>

\* the Next returns the end-of-stream sentinel: the channel is closed
ConsumerNextEOF ==
    /\ cons.pc = "receiving"
    /\ NextSeesEOF(pairs["up"])
    /\ cons' = [cons EXCEPT !.pc = "run", !.results = Append(@, "EOF")]
    /\ UNCHANGED <<pairs, ctxDone, prod, stage>>

\* the Next returns ctx.Err(): the context is done
ConsumerNextCancelled ==
    /\ cons.pc = "receiving"
    /\ NextSeesCancel
    /\ cons' = [cons EXCEPT !.pc = "run", !.results = Append(@, "Canceled")]
    /\ UNCHANGED <<pairs, ctxDone, prod, stage>>


(***************************************************************************)
(* Specifications: each one runs one component, the others stay as         *)
(* constructed.                                                            *)
(***************************************************************************)
ExecAtRest ==
    /\ xin = [hasRun |-> TRUE, argsOK |-> TRUE, isEE |-> FALSE,
              encType |-> Text, cmdEncs |-> {}, timeoutOpt |-> "none",
              preRun |-> "nil", hasPostRun |-> FALSE, runEmits |-> 0,
              runCloses |-> FALSE, runOutcome |-> "return"]
    /\ xpc = "start"
    /\ re = "orig"
    /\ em = [e \in Emitters |-> NewEmitter]
    /\ ret = "none"
    /\ panicv = "none"
    /\ xcnt = NoCounts
    /\ xctx = NoTimeout

HTTPAtRest ==
    /\ hin = [hasContexter |-> FALSE, hasCloseNotifier |-> FALSE, hasRequestAdder |-> FALSE,
              origin |-> "", referer |-> "", allowed |-> <<>>,
              parseResult |-> "ok", callResult |-> "nil"]
    /\ hpc = "start"
    /\ wpc = "none"
    /\ hctx = NoContexts
    /\ reqCtx = "unset"
    /\ status = 0
    /\ hcnt = NoHTTPCounts

Init == InitExec /\ HTTPAtRest /\ InitConfig /\ InitChan

Next ==
    \/ CallableCheck /\ UNCHANGED <<hvars, cvars, chvars>>
    \/ CheckArguments /\ UNCHANGED <<hvars, cvars, chvars>>
    \/ SelectEncoder /\ UNCHANGED <<hvars, cvars, chvars>>
    \/ ApplyTimeout /\ UNCHANGED <<hvars, cvars, chvars>>
    \/ PreRun /\ UNCHANGED <<hvars, cvars, chvars>>
    \/ PostRunWrap /\ UNCHANGED <<hvars, cvars, chvars>>
    \/ Run /\ UNCHANGED <<hvars, cvars, chvars>>
    \/ RecoverGuard /\ UNCHANGED <<hvars, cvars, chvars>>
    \/ DeferClose /\ UNCHANGED <<hvars, cvars, chvars>>
    \/ CancelPrevious /\ UNCHANGED <<hvars, cvars, chvars>>
    \/ TimeoutElapses /\ UNCHANGED <<hvars, cvars, chvars>>

Spec == Init /\ [][Next]_vars

InitH == InitHTTP /\ ExecAtRest /\ InitConfig /\ InitChan

NextHTTP ==
    \/ SetupContext /\ UNCHANGED <<xvars, cvars, chvars>>
    \/ CheckOrigin /\ UNCHANGED <<xvars, cvars, chvars>>
    \/ ParseRequest /\ UNCHANGED <<xvars, cvars, chvars>>
    \/ AddRequest /\ UNCHANGED <<xvars, cvars, chvars>>
    \/ SetRequestContext /\ UNCHANGED <<xvars, cvars, chvars>>
    \/ CallCommand /\ UNCHANGED <<xvars, cvars, chvars>>
    \/ CallReturns /\ UNCHANGED <<xvars, cvars, chvars>>
    \/ HandlerReturn /\ UNCHANGED <<xvars, cvars, chvars>>
    \/ Watcher /\ UNCHANGED <<xvars, cvars, chvars>>
    \/ ClientGone /\ UNCHANGED <<xvars, cvars, chvars>>
    \/ ParentDone /\ UNCHANGED <<xvars, cvars, chvars>>

SpecHTTP == InitH /\ [][NextHTTP]_vars

\* The Go scheduler runs every runnable goroutine: the handler takes its
\* next step and the watcher, once one of its select cases is ready, runs to
\* its end.  The command may run for ever, the client need not disconnect
\* and the env context need not be cancelled.
HandlerSteps ==
    \/ SetupContext \/ CheckOrigin \/ ParseRequest \/ AddRequest
    \/ SetRequestContext \/ CallCommand \/ HandlerReturn

FairHTTP ==
    /\ WF_vars(HandlerSteps /\ UNCHANGED <<xvars, cvars, chvars>>)
    /\ WF_vars(Watcher /\ UNCHANGED <<xvars, cvars, chvars>>)

SpecHTTPLive == InitH /\ [][NextHTTP]_vars /\ FairHTTP

\* ---------------------------------------------------------------------
\* ServeHTTP with the call of line 188 carried out by Execute: the steps of
\* Execute run while the handler is inside root.Call, and what Execute
\* returns or raises is what the handler sees.
\* ---------------------------------------------------------------------
\* the requests served: with and without an Origin the server allows
ServeRequests ==
    {i \in HTTPInputs : /\ i.origin \in {"", "https://evil.example"}
                        /\ i.referer = ""
                        /\ i.allowed = <<"https://good.example">>
                        /\ i.callResult = "nil"}

\* the commands served: the encoding is left at JSON
ServeCommands ==
    {x \in ExecInputs : x.encType = JSON /\ x.cmdEncs = {}}

\* how the call of Execute ends, seen from its caller
ExecuteOutcome == IF panicv # "none" THEN "panic" ELSE ret

\* handler.go:188-193 with Execute's own outcome
ServeCallReturns ==
    /\ xpc = "done"
    /\ CallReturnsWith(ExecuteOutcome)

InitS ==
    /\ hin \in ServeRequests
    /\ xin \in ServeCommands
    /\ InitHTTP /\ InitExec /\ InitConfig /\ InitChan

\* req.Context is nil when Execute runs (line 176), so there is no previous
\* context to cancel and no derived one whose deadline could pass
NextServe ==
    \/ SetupContext /\ UNCHANGED <<xvars, cvars, chvars>>
    \/ CheckOrigin /\ UNCHANGED <<xvars, cvars, chvars>>
    \/ ParseRequest /\ UNCHANGED <<xvars, cvars, chvars>>
    \/ AddRequest /\ UNCHANGED <<xvars, cvars, chvars>>
    \/ SetRequestContext /\ UNCHANGED <<xvars, cvars, chvars>>
    \/ CallCommand /\ UNCHANGED <<xvars, cvars, chvars>>
    \/ hpc = "calling" /\ CallableCheck /\ UNCHANGED <<hvars, cvars, chvars>>
    \/ hpc = "calling" /\ CheckArguments /\ UNCHANGED <<hvars, cvars, chvars>>
    \/ hpc = "calling" /\ SelectEncoder /\ UNCHANGED <<hvars, cvars, chvars>>
    \/ hpc = "calling" /\ ApplyTimeout /\ UNCHANGED <<hvars, cvars, chvars>>
    \/ hpc = "calling" /\ PreRun /\ UNCHANGED <<hvars, cvars, chvars>>
    \/ hpc = "calling" /\ PostRunWrap /\ UNCHANGED <<hvars, cvars, chvars>>
    \/ hpc = "calling" /\ Run /\ UNCHANGED <<hvars, cvars, chvars>>
    \/ hpc = "calling" /\ RecoverGuard /\ UNCHANGED <<hvars, cvars, chvars>>
    \/ hpc = "calling" /\ DeferClose /\ UNCHANGED <<hvars, cvars, chvars>>
    \/ ServeCallReturns /\ UNCHANGED <<xvars, cvars, chvars>>
    \/ HandlerReturn /\ UNCHANGED <<xvars, cvars, chvars>>
    \/ Watcher /\ UNCHANGED <<xvars, cvars, chvars>>
    \/ ClientGone /\ UNCHANGED <<xvars, cvars, chvars>>
    \/ ParentDone /\ UNCHANGED <<xvars, cvars, chvars>>

SpecServe == InitS /\ [][NextServe]_vars

InitC == InitConfig /\ ExecAtRest /\ HTTPAtRest /\ InitChan

NextConfig ==
    \E g \in Goroutines :
        \/ CallAccessor(g) /\ UNCHANGED <<xvars, hvars, chvars>>
        \/ AcquireRLock(g) /\ UNCHANGED <<xvars, hvars, chvars>>
        \/ ReadOptions(g) /\ UNCHANGED <<xvars, hvars, chvars>>
        \/ ReleaseRLock(g) /\ UNCHANGED <<xvars, hvars, chvars>>
        \/ AcquireLock(g) /\ UNCHANGED <<xvars, hvars, chvars>>
        \/ WriteOptions(g) /\ UNCHANGED <<xvars, hvars, chvars>>
        \/ ReleaseLock(g) /\ UNCHANGED <<xvars, hvars, chvars>>

SpecConfig == InitC /\ [][NextConfig]_vars

InitP == InitPostRun /\ ExecAtRest /\ HTTPAtRest /\ InitConfig

NextPostRun ==
    \/ RunSetLength /\ UNCHANGED <<xvars, hvars, cvars>>
    \/ RunEmit /\ UNCHANGED <<xvars, hvars, cvars>>
    \/ RunEmitDelivered /\ UNCHANGED <<xvars, hvars, cvars>>
    \/ RunClose /\ UNCHANGED <<xvars, hvars, cvars>>
    \/ ExecuteReturns /\ UNCHANGED <<xvars, hvars, cvars>>
    \/ StageLength /\ UNCHANGED <<xvars, hvars, cvars>>
    \/ StageSetLength /\ UNCHANGED <<xvars, hvars, cvars>>
    \/ StageNextEOF /\ UNCHANGED <<xvars, hvars, cvars>>
    \/ StageEmit /\ UNCHANGED <<xvars, hvars, cvars>>
    \/ StageEmitDelivered /\ UNCHANGED <<xvars, hvars, cvars>>
    \/ StageClose /\ UNCHANGED <<xvars, hvars, cvars>>
    \/ TestLength /\ UNCHANGED <<xvars, hvars, cvars>>
    \/ TestNextEOF /\ UNCHANGED <<xvars, hvars, cvars>>

SpecPostRun == InitP /\ [][NextPostRun]_vars

InitT == InitCancel /\ ExecAtRest /\ HTTPAtRest /\ InitConfig

NextCancel ==
    \/ ProducerEmit /\ UNCHANGED <<xvars, hvars, cvars>>
    \/ ProducerEmitDelivered /\ UNCHANGED <<xvars, hvars, cvars>>
    \/ ProducerEmitCancelled /\ UNCHANGED <<xvars, hvars, cvars>>
    \/ ProducerClose /\ UNCHANGED <<xvars, hvars, cvars>>
    \/ Cancel /\ UNCHANGED <<xvars, hvars, cvars>>
    \/ ConsumerNext /\ UNCHANGED <<xvars, hvars, cvars>>
    \/ ConsumerNextEOF /\ UNCHANGED <<xvars, hvars, cvars>>
    \/ ConsumerNextCancelled /\ UNCHANGED <<xvars, hvars, cvars>>

SpecCancel == InitT /\ [][NextCancel]_vars

(***************************************************************************)
(* Properties of Execute                                                   *)
(***************************************************************************)
Untouched(e) == em[e] = NewEmitter

\* Execute has ended: it returned ret, or a panic unwinds past it
ExecEnded == xpc = "done"

\* the call got past the callable check and the argument check
PastChecks == xin.hasRun /\ xcnt.argsChecked /\ xin.argsOK

\* the call got past timeout parsing and PreRun as well
PastHooks == PastChecks /\ ret \notin {"ParseErr", "PreRunErr"}

\* C1 (as stated): every call of Execute that gets past the callable check and
\* the argument check has closed the emitter re when it returns or unwinds,
\* on every exit path, a failed timeout parse and a failing PreRun included.
C1_ClosedOnEveryExit ==
    (ExecEnded /\ PastChecks) => em[re].closed

\* C1 (amended): a call of Execute that also gets past timeout parsing and
\* PreRun has closed re when it returns or unwinds (Run returned, Run
\* panicked, with or without a PostRun wrap); a call that ends with the
\* timeout parse error or the PreRun error has called Close on no emitter.
C1_ClosedAfterHooks ==
    ExecEnded =>
        /\ PastHooks => (em[re].closed /\ em[re].execCloses = 1)
        /\ ret \in {"ParseErr", "PreRunErr"} =>
               \A e \in Emitters : em[e].closeCalls = 0

C1_Witness ==
    /\ ExecEnded /\ PastHooks
    /\ panicv = "other" /\ xin.hasPostRun
    /\ em[re].closed

\* C2 (as stated): for every call of Execute that reaches Run, the emitter
\* handed to Run has received exactly one Close in total when Execute ends.
C2_ExactlyOneClose ==
    (ExecEnded /\ xcnt.runCalls = 1) => em[re].closeCalls = 1

\* C2 (amended): for every call of Execute that reaches Run, the executor
\* itself closes the emitter handed to Run exactly once; the emitter has
\* received one Close in total when Run did not close it and two when Run
\* closed it before returning.
C2_ExecutorClosesOnce ==
    (ExecEnded /\ xcnt.runCalls = 1) =>
        /\ em[re].execCloses = 1
        /\ em[re].closeCalls = (IF xin.runCloses THEN 2 ELSE 1)

C2_Witness ==
    /\ ExecEnded /\ xcnt.runCalls = 1
    /\ xin.runCloses /\ xin.runOutcome = "return"
    /\ em[re].closeCalls = 2

\* C3 (as stated): when Run panics with an error, Execute emits it into re
\* and returns a non-nil error, also when the emit succeeds.
C3_PanicErrorReturned ==
    (ExecEnded /\ xcnt.runCalls = 1 /\ xin.runOutcome = "panicErr") =>
        /\ em[re].execCalls >= 1
        /\ ret \notin {"nil", "none"}

\* C9: a command without Run makes Execute return the not-callable error and
\* do nothing else: no argument check, no encoder, no context change, no
\* PreRun, PostRun or Run, no call on any emitter.
C9_NotCallableOnly ==
    (ExecEnded /\ ~xin.hasRun) =>
        /\ ret = "ErrNotCallable"
        /\ xcnt = NoCounts
        /\ re = "orig"
        /\ \A e \in Emitters : Untouched(e)

C9_Witness ==
    ExecEnded /\ ~xin.hasRun /\ ret = "ErrNotCallable" /\ xin.isEE /\ xin.preRun = "ok"

\* C10: a failed argument check makes Execute return that error at once, with
\* the emitter untouched (not closed, no encoder) and without PreRun, PostRun
\* or Run.
C10_ArgErrorLeavesEmitter ==
    (ExecEnded /\ xin.hasRun /\ ~xin.argsOK) =>
        /\ ret = "ArgErr"
        /\ re = "orig"
        /\ \A e \in Emitters : Untouched(e)
        /\ xcnt.preRunCalls = 0 /\ xcnt.postRunCalls = 0 /\ xcnt.runCalls = 0
        /\ ~xcnt.ctxReplaced

C10_Witness ==
    /\ ExecEnded /\ xin.hasRun /\ ~xin.argsOK /\ ret = "ArgErr"
    /\ xin.isEE /\ xin.hasPostRun /\ xcnt.argsChecked

(***************************************************************************)
(* Properties of ServeHTTP                                                 *)
(***************************************************************************)
Admitted ==
    allowOrigin(hin.origin, hin.allowed) /\ allowReferer(hin.referer, hin.allowed)

\* C4 (as stated): with an env exposing Context() and a writer supporting
\* close notification, once the client-gone signal or the completion of the
\* parent context has been acted upon while the command runs, the context
\* in req.Context is cancelled.
C4_RequestContextCancelled ==
    (/\ hpc = "calling"
     /\ hin.hasContexter /\ hin.hasCloseNotifier
     /\ (wpc = "done" \/ hctx.parentDone))
        => ReqCtxDone

\* C5: a request for which allowOrigin or allowReferer is false is answered
\* 403 and is neither parsed, nor registered with AddRequest, nor handed to
\* the command; no request answered 403 ever reaches the command.
C5_ForbiddenNotDispatched ==
    /\ (~Admitted /\ hpc \notin {"start", "check"}) => status = 403
    /\ status = 403 =>
          /\ ~hcnt.parsed
          /\ hcnt.addCalls = 0
          /\ hcnt.callCalls = 0
          /\ reqCtx = "unset"
          /\ hpc \in {"return", "done"}

C5_Witness ==
    /\ hpc = "done" /\ status = 403
    /\ hin.origin = "https://evil.example"
    /\ hin.allowed = <<"https://good.example">>
    /\ hin.referer = ""
    /\ hin.hasRequestAdder /\ hin.parseResult = "ok"

(***************************************************************************)
(* Properties of ServerConfig                                              *)
(***************************************************************************)
\* goroutine g is between the lock and the unlock of its accessor
InCritical(g) == gs[g].pc \in {"cs", "unlock"}

\* C8 (as stated): while a mutation accessor is inside its critical section
\* on a ServerConfig, no other accessor, mutating or reading, is inside its
\* own critical section on the same ServerConfig.
C8_WritersExclusive ==
    \A g \in Goroutines, h \in Goroutines :
        (g # h /\ InCritical(g) /\ gs[g].op \in WriteAccessors) => ~InCritical(h)

(***************************************************************************)
(* Properties of the channel response pair                                 *)
(***************************************************************************)
AllAre(results, r) == \A i \in 1..Len(results) : results[i] = r

\* C6 (as stated): when the request context is cancelled before the consumer
\* has called Next, every Emit of the producer that returns returns the
\* cancellation sentinel and every Next of the consumer that returns
\* returns the same sentinel.
C6_CancelledBeforeNext ==
    (ctxDone /\ cons.nextsBeforeCancel = 0) =>
        /\ AllAre(prod.results, "Canceled")
        /\ AllAre(cons.results, "Canceled")

\* the results a finished PostRun pipeline must show
Doubled(vs) == [i \in 1..Len(vs) |-> 2 * vs[i]]

IsPrefix(a, b) == Len(a) <= Len(b) /\ \A i \in 1..Len(a) : a[i] = b[i]

PastSelection == xpc \notin {"start", "args", "enc"} /\ PastChecks

\* C11: when re is an EncodingEmitter, Execute installs exactly one encoder on
\* it before PreRun and Run start: for the requested tag t, with Text
\* replaced by JSON when the command has no Text encoder, the command's
\* encoder for t, else the global one for t, else the global JSON encoder.
\* When re is not an EncodingEmitter no encoder is installed.
C11_EncoderInstalled ==
    /\ PastSelection =>
          /\ em["up"].encoders = 0
          /\ IF xin.isEE
               THEN /\ em["orig"].encoders = 1
                    /\ LET t == IF xin.encType = Text /\ Text \notin xin.cmdEncs
                                  THEN JSON ELSE xin.encType
                       IN  em["orig"].encoder =
                              (CASE t \in xin.cmdEncs -> <<"cmd", t>>
                                 [] t \notin xin.cmdEncs /\ t \in Encoders -> <<"global", t>>
                                 [] OTHER -> <<"global", JSON>>)
               ELSE em["orig"].encoders = 0
    /\ ~PastSelection =>
          /\ xcnt.preRunCalls = 0 /\ xcnt.runCalls = 0
          /\ \A e \in Emitters : em[e].encoders = 0

C11_Witness ==
    /\ xpc = "done" /\ xcnt.runCalls = 1 /\ xcnt.preRunCalls = 1
    /\ xin.isEE /\ xin.encType = Text /\ xin.cmdEncs = {JSON, Protobuf}
    /\ em["orig"].encoder = <<"cmd", JSON>>

\* C12: a timeout option that does not parse makes Execute return the parse
\* error with neither PreRun, PostRun nor Run invoked; one that parses makes
\* req.Context a child of the previous context, which PreRun and Run receive
\* and which is done once the timeout has elapsed or the previous context is
\* cancelled; without the option req.Context stays the previous context.
C12_TimeoutApplied ==
    LET pastTimeout == PastChecks /\ xpc \notin {"start", "args", "enc", "timeout"}
        expected    == IF xin.timeoutOpt = "good" THEN "child" ELSE "prev"
    IN  /\ (pastTimeout /\ xin.timeoutOpt = "bad") =>
              /\ xpc = "done" /\ ret = "ParseErr"
              /\ xcnt.preRunCalls = 0 /\ xcnt.postRunCalls = 0 /\ xcnt.runCalls = 0
        /\ pastTimeout => xctx.cur = expected
        /\ ~pastTimeout => xctx.cur = "prev"
        /\ xcnt.preRunCalls > 0 => xcnt.preRunCtx = expected
        /\ xcnt.runCalls > 0 => xcnt.runCtx = expected
        /\ (pastTimeout /\ xin.timeoutOpt = "good") =>
              (CtxDone(xctx.cur) <=> (xctx.elapsed \/ xctx.prevCancelled))
        /\ (pastTimeout /\ xin.timeoutOpt = "none") =>
              (CtxDone(xctx.cur) <=> xctx.prevCancelled)

C12_Witness ==
    /\ xpc = "done" /\ xin.timeoutOpt = "good"
    /\ xcnt.preRunCalls = 1 /\ xcnt.runCalls = 1
    /\ xcnt.runCtx = "child"
    /\ xctx.elapsed /\ ~xctx.prevCancelled /\ CtxDone(xcnt.runCtx)

\* the call reached the PreRun step: the checks passed and the timeout parsed
ReachedPreRun ==
    /\ PastChecks /\ xin.timeoutOpt # "bad"
    /\ xpc \notin {"start", "args", "enc", "timeout", "prerun"}

\* C13: a PreRun the command defines is invoked exactly once by a call that
\* gets that far, after encoder selection and timeout handling and before
\* the PostRun wrap and Run; when it returns an error Execute returns that
\* error and neither the PostRun stage nor Run is invoked.
C13_PreRunOrder ==
    /\ xcnt.preRunCalls <= 1
    /\ (ReachedPreRun /\ xin.preRun # "nil") => xcnt.preRunCalls = 1
    /\ xcnt.preRunCalls = 1 =>
          /\ xin.preRun # "nil" /\ ReachedPreRun
          /\ xin.isEE => em["orig"].encoders = 1
          /\ xcnt.preRunCtx = (IF xin.timeoutOpt = "good" THEN "child" ELSE "prev")
    /\ xpc = "prerun" =>
          /\ xcnt.postRunCalls = 0 /\ xcnt.runCalls = 0 /\ re = "orig"
          /\ xin.isEE => em["orig"].encoders = 1
    /\ (xcnt.postRunCalls > 0 \/ xcnt.runCalls > 0) =>
          /\ xin.preRun # "err"
          /\ xin.preRun = "ok" => xcnt.preRunCalls = 1
    /\ (ReachedPreRun /\ xin.preRun = "err") =>
          /\ xpc = "done" /\ ret = "PreRunErr"
          /\ xcnt.postRunCalls = 0 /\ xcnt.runCalls = 0

C13_Witness ==
    /\ xpc = "done" /\ xin.preRun = "err" /\ ret = "PreRunErr"
    /\ xcnt.preRunCalls = 1 /\ xin.hasPostRun /\ xin.isEE /\ xin.timeoutOpt = "good"

\* C18: after a PostRun wrap the executor calls no method on the original
\* emitter: Run, the guard's Emit and the final Close act on the replacement;
\* without a PostRun for the emitter's kind they act on the original.
C18_WrapOwnership ==
    /\ xcnt.postRunCalls = 1 =>
          /\ re = "up"
          /\ em["orig"].execCalls = em["orig"].encoders
          /\ em["orig"].closeCalls = 0 /\ em["orig"].emits = 0
          /\ xpc = "done" => em["up"].execCloses = 1
          /\ (xpc = "done" /\ xin.runOutcome = "panicErr") =>
                em["up"].execCalls = 2
    /\ (xcnt.postRunCalls = 0 /\ xcnt.runCalls = 1) =>
          /\ re = "orig"
          /\ Untouched("up")
          /\ xpc = "done" => em["orig"].execCloses = 1
          /\ (~xin.runCloses) => em["orig"].emits >= xin.runEmits

C18_Witness ==
    /\ xpc = "done" /\ xcnt.postRunCalls = 1 /\ xcnt.runCalls = 1
    /\ xin.isEE /\ xin.runOutcome = "panicErr" /\ xin.runEmits = 2
    /\ em["up"].closed /\ ~em["orig"].closed

(***************************************************************************)
(* Properties of ServeHTTP, continued                                      *)
(***************************************************************************)
HandlerEnded == hpc \in {"return", "done"}

\* C14 (as stated): when root.Call returns a dispatch error of Execute (not
\* callable, argument check, timeout parse) the response status is 400 or 404.
C14_DispatchErrorStatus ==
    (HandlerEnded /\ hcnt.callCalls = 1 /\ hin.callResult \in DispatchErrors)
        => status \in {400, 404}

\* C15: an admitted request whose parse fails is answered 404 when the error
\* is ErrNotFound and 400 otherwise, with the error's message as the body,
\* and is neither registered with AddRequest nor handed to the command; a
\* request that is not admitted is answered 403 whatever its parse would give.
C15_ParseFailure ==
    /\ (Admitted /\ HandlerEnded /\ hin.parseResult # "ok") =>
          /\ status = (IF hin.parseResult = "ErrNotFound" THEN 404 ELSE 400)
          /\ hcnt.body = (IF hin.parseResult = "ErrNotFound"
                            THEN "404 page not found" ELSE "other.Error()")
          /\ hcnt.parsed
          /\ hcnt.addCalls = 0 /\ hcnt.doneCalls = 0 /\ hcnt.callCalls = 0
          /\ reqCtx = "unset"
    /\ (~Admitted /\ HandlerEnded) =>
          /\ status = 403 /\ hcnt.body = "403 - Forbidden" /\ ~hcnt.parsed

C15_Witness ==
    /\ hpc = "done" /\ status = 404 /\ hin.parseResult = "ErrNotFound"
    /\ hin.origin = "https://good.example"
    /\ hin.allowed = <<"https://other.example", "https://good.example">>
    /\ hin.hasRequestAdder

\* C16: a request is admitted exactly when (a) its Origin is empty, or the
\* allowed list holds "*" or that very string, and (b) its Referer is empty,
\* or parses as a URL and the allowed list holds "*" or scheme://host; a
\* Referer that does not parse is rejected even under "*", and the empty
\* list rejects every request with a non-empty Origin or Referer.
C16_AdmissionRule ==
    LET allowedSet == {hin.allowed[i] : i \in 1..Len(hin.allowed)}
        u          == ParseURL(hin.referer)
        originOK   == \/ hin.origin = ""
                      \/ "*" \in allowedSet
                      \/ hin.origin \in allowedSet
        refererOK  == \/ hin.referer = ""
                      \/ /\ ~u.err
                         /\ \/ "*" \in allowedSet
                            \/ (u.Scheme \o "://" \o u.Host) \in allowedSet
        checked    == hpc \notin {"start", "check"}
    IN  /\ checked => ((status # 403) <=> (originOK /\ refererOK))
        /\ checked => ((hpc = "parse" \/ hcnt.parsed) <=> (originOK /\ refererOK))
        /\ (checked /\ hin.referer # "" /\ u.err) => status = 403
        /\ (checked /\ hin.allowed = <<>> /\ (hin.origin # "" \/ hin.referer # ""))
              => status = 403

C16_Witness ==
    /\ hpc = "done" /\ status = 403
    /\ hin.origin = "" /\ hin.referer = "%zz" /\ hin.allowed = <<"*">>

\* C17 (as stated): the Request handed to the command carries a non-nil
\* cancellable context, the one derived from the env's Context() when the
\* env exposes it and a fresh one otherwise.
C17_RequestContextUsable ==
    hpc = "calling" =>
        /\ reqCtx \notin {"nil", "unset"}
        /\ hin.hasContexter => reqCtx = "derived"

\* C19: the goroutine waiting for the client to go away or for the derived
\* context ends once ServeHTTP has returned, on every exit path, even when
\* the client never disconnects and the env context is never cancelled.
C19_WatcherTerminates ==
    (hpc = "done" /\ wpc = "waiting") ~> (wpc = "done")

C19_Witness ==
    /\ hpc = "done" /\ wpc = "done"
    /\ ~hctx.clientGone /\ ~hctx.parentDone
    /\ hcnt.recovered

\* C20: the done callback of AddRequest is invoked exactly once for every
\* request that was added, after the call of the command has finished, on
\* every exit path (normal return, error of Call, panic in Call); it is
\* never invoked for a request answered 403 or one that failed to parse.
C20_DoneOnce ==
    /\ hcnt.addCalls <= 1 /\ hcnt.doneCalls <= hcnt.addCalls
    /\ hpc = "done" => hcnt.doneCalls = hcnt.addCalls
    /\ hcnt.doneCalls > 0 => (hpc = "done" /\ hcnt.callCalls = 1)
    /\ (hpc = "done" /\ Admitted /\ hin.parseResult = "ok" /\ hin.hasRequestAdder)
          => hcnt.doneCalls = 1
    /\ (~Admitted \/ hin.parseResult # "ok") =>
          (hcnt.addCalls = 0 /\ hcnt.doneCalls = 0)

C20_Witness ==
    /\ hpc = "done" /\ hcnt.doneCalls = 1 /\ hcnt.addCalls = 1
    /\ hcnt.recovered /\ hin.callResult = "panic"

(***************************************************************************)
(* Properties of ServeHTTP together with Execute                           *)
(***************************************************************************)
\* C21: no panic raised while a request is served leaves ServeHTTP.  When
\* Run panics with a value that is not an error, Execute closes the emitter
\* and lets the panic go on past its own return; the handler's deferred
\* recover stops it and ServeHTTP returns normally.
C21_PanicContained ==
    LET runPanicked == xin.runOutcome = "panicOther" /\ xcnt.runCalls = 1
    IN  /\ hpc = "done" => ~hcnt.panicking
        /\ (hpc = "done" /\ panicv # "none") => hcnt.recovered
        /\ hcnt.recovered => (hpc = "done" /\ xpc = "done" /\ panicv # "none")
        /\ (runPanicked /\ xpc = "done") =>
              /\ panicv = "other" /\ ret = "none"
              /\ em[re].closed /\ em[re].execCloses = 1
              /\ em[re].execEmits = 0
        /\ (runPanicked /\ hpc = "return") => hcnt.panicking
        /\ (runPanicked /\ hpc = "done") => hcnt.recovered

C21_Witness ==
    /\ hpc = "done" /\ hcnt.recovered /\ ~hcnt.panicking
    /\ xin.runOutcome = "panicOther" /\ xcnt.runCalls = 1
    /\ panicv = "other" /\ em[re].closed
    /\ hin.hasRequestAdder /\ hcnt.doneCalls = 1

====
